---- MODULE Spec2Model ----
(***************************************************************************)
(* A model of the crud-guide service: an axum router over a sqlx Postgres  *)
(* pool (src/db.rs), with the handlers health (src/handlers/health.rs),    *)
(* create_user and get_user (src/handlers/users.rs).                       *)
(*                                                                         *)
(* Every request is an independent task.  A handler suspends at exactly    *)
(* one place, `.fetch_one(&pool).await`: first waiting for a pooled        *)
(* connection, then waiting for the backend's answer.  The connection is   *)
(* returned to the pool when fetch_one finishes, before the handler maps   *)
(* the result to a response.                                               *)
(***************************************************************************)
EXTENDS Integers, Sequences, FiniteSets, Bags, TLC

VARIABLES
    inflight,   \* the bag of requests being served: [req, handler, conn]
    last,       \* the response sent last, with its request
    returned,   \* the Users that create_user has returned so far
    poolIdle,   \* the pool's queue of idle connections
    poolSize,   \* the number of connections the pool has opened
    users,      \* the users table, in insertion order
    nextId      \* the next value of the id sequence of the users table

vars == <<inflight, last, returned, poolIdle, poolSize, users, nextId>>

-----------------------------------------------------------------------------
(* Bounds of the model *)

NumTasks == 2       \* requests in flight at once, data specification
MaxId == 2          \* values the id sequence of the users table may hand out

-----------------------------------------------------------------------------
(* Program constants *)

\* db.rs: .max_connections(5)
MaxConnections == 5

\* db.rs: .acquire_timeout(Duration::from_secs(30))
AcquireTimeoutSecs == 30

\* Requests in flight at once, pool specification: one more than the pool
\* has connections.
PoolTasks == MaxConnections + 1

OK == 200
CREATED == 201
NOT_FOUND == 404
METHOD_NOT_ALLOWED == 405
UNPROCESSABLE_ENTITY == 422
INTERNAL_SERVER_ERROR == 500

NoConn == 0
NoId == 0

-----------------------------------------------------------------------------
(* Resource model: models/user.rs *)

\* An Option<T> is a sequence of length at most one; a JSON field that is
\* absent from the payload is the empty sequence.
None == <<>>
Some(x) == <<x>>

\* User: a row of the users table.
User(id, name, email, age, created_at, updated_at) ==
    [id |-> id, name |-> name, email |-> email, age |-> age,
     created_at |-> created_at, updated_at |-> updated_at]

\* Variant: name and email default to the empty string when absent.
JsonExtractLenient(body) ==
    [ok |-> TRUE,
     payload |-> [name  |-> IF body.name = None THEN "" ELSE body.name[1],
                  email |-> IF body.email = None THEN "" ELSE body.email[1],
                  age   |-> body.age]]

\* Json<CreateUser>: name and email are String (required, any string, the
\* empty one included), age is Option<i32> (absent decodes to None).
JsonExtract(body) ==
    IF body.name = None \/ body.email = None
    THEN [ok |-> FALSE]
    ELSE [ok |-> TRUE,
          payload |-> [name |-> body.name[1], email |-> body.email[1],
                       age |-> body.age]]

-----------------------------------------------------------------------------
(* Routes: routes.rs *)

\* create_routes: the route table.
create_routes ==
    { [path |-> "/health", method |-> "GET",  handler |-> "health"],
      [path |-> "/users",  method |-> "POST", handler |-> "create_user"] }

\* The router's dispatch of a method and a path pattern over create_routes:
\* a handler, or the router's own 405 (path known, method not) or 404.
Dispatch(method, path) ==
    IF \E r \in create_routes : r.path = path /\ r.method = method
    THEN [routed |-> TRUE,
          handler |-> (CHOOSE r \in create_routes :
                          r.path = path /\ r.method = method).handler]
    ELSE IF \E r \in create_routes : r.path = path
    THEN [routed |-> FALSE, status |-> METHOD_NOT_ALLOWED]
    ELSE [routed |-> FALSE, status |-> NOT_FOUND]

-----------------------------------------------------------------------------
(* Connection pool: db.rs create_pool, and the pool's use by fetch_one *)

\* Variant: the pool opens one connection more than max_connections.
CanAcquireOffByOne(idle, size) == idle # <<>> \/ size <= MaxConnections

\* A connection can be had at once: one is idle, or fewer than
\* max_connections are open.
CanAcquire(idle, size) == idle # <<>> \/ size < MaxConnections

\* Variant: the idle connection handed out stays in the idle queue.
PoolAcquireShared(idle, size) ==
    IF idle # <<>>
    THEN [conn |-> Head(idle), idle |-> idle, size |-> size]
    ELSE [conn |-> size + 1, idle |-> idle, size |-> size + 1]

\* Acquisition: an idle connection if there is one, else a new connection
\* while fewer than max_connections are open.
PoolAcquire(idle, size) ==
    IF idle # <<>>
    THEN [conn |-> Head(idle), idle |-> Tail(idle), size |-> size]
    ELSE [conn |-> size + 1, idle |-> idle, size |-> size + 1]

\* Variant: the connection is not given back.
PoolReleaseLeak(idle, c) == idle

\* The borrowed connection goes back to the idle queue when fetch_one ends.
PoolRelease(idle, c) == Append(idle, c)

-----------------------------------------------------------------------------
(* The statements the handlers execute *)

HealthStmt == [kind |-> "select_1"]

\* Variant: name and email bound in the wrong order.
CreateUserStmtSwapped(payload) ==
    [kind |-> "insert", name |-> payload.email, email |-> payload.name,
     age |-> payload.age]

\* INSERT INTO users (name, email, age) VALUES ($1, $2, $3) RETURNING ...
CreateUserStmt(payload) ==
    [kind |-> "insert", name |-> payload.name, email |-> payload.email,
     age |-> payload.age]

\* Variant: get_user executes an insert.
GetUserStmtCopyPasted(id) ==
    [kind |-> "insert", name |-> "copy", email |-> "paste", age |-> None]

\* Variant: get_user selects without the WHERE clause.
GetUserStmtAnyRow(id) == [kind |-> "select_all"]

\* SELECT ... FROM users WHERE id = $1
GetUserStmt(id) == [kind |-> "select_by_id", id |-> id]

\* The row the users table stores for an insert: the columns the statement
\* gives, and the columns the table fills in, id from its sequence and
\* created_at, updated_at from the backend's clock (a logical clock that
\* advances with the sequence).
InsertedRow(stmt, seq) == User(seq, stmt.name, stmt.email, stmt.age, seq, seq)

\* The backend's execution of one statement on the users table.  fault is
\* the backend's outcome: "ok", "constraint" (the insert is rejected by a
\* constraint of the table, after the id sequence advanced) or "io" (the
\* backend was not reached).
DbExec(stmt, fault, table, seq) ==
    IF fault = "io"
    THEN [rows |-> <<>>, err |-> "io", users |-> table, nextId |-> seq]
    ELSE IF stmt.kind = "insert"
    THEN IF fault = "constraint"
         THEN [rows |-> <<>>, err |-> "database", users |-> table,
               nextId |-> seq + 1]
         ELSE LET row == InsertedRow(stmt, seq)
              IN  [rows |-> <<row>>, err |-> "", users |-> Append(table, row),
                   nextId |-> seq + 1]
    ELSE IF stmt.kind = "select_by_id"
    THEN [rows |-> SelectSeq(table, LAMBDA u : u.id = stmt.id), err |-> "",
          users |-> table, nextId |-> seq]
    ELSE IF stmt.kind = "select_all"
    THEN [rows |-> table, err |-> "", users |-> table, nextId |-> seq]
    ELSE [rows |-> <<[one |-> 1]>>, err |-> "", users |-> table,
          nextId |-> seq]

\* fetch_one: the first row, or Error::RowNotFound when there is none.
FetchOne(out) ==
    IF out.err # "" THEN [ok |-> FALSE, err |-> out.err]
    ELSE IF out.rows = <<>> THEN [ok |-> FALSE, err |-> "RowNotFound"]
    ELSE [ok |-> TRUE, err |-> "", row |-> out.rows[1]]

PoolTimedOut == [ok |-> FALSE, err |-> "PoolTimedOut"]

-----------------------------------------------------------------------------
(* The handlers' mapping of fetch_one's result to a response *)

\* health: 200 always, database "connected" or "disconnected".
HealthResponse(result) ==
    [status |-> OK,
     body |-> [status |-> "ok",
               database |-> IF result.ok THEN "connected" ELSE "disconnected"]]

\* Variant: create_user maps errors to 400.
CreateUserResponseBadRequest(result) ==
    IF result.ok
    THEN [status |-> CREATED, body |-> result.row]
    ELSE [status |-> 400,
          body |-> [text |-> "Failed to create user", detail |-> result.err]]

\* create_user: map_err to 500 with a detail text, else 201 with the row.
CreateUserResponse(result) ==
    IF result.ok
    THEN [status |-> CREATED, body |-> result.row]
    ELSE [status |-> INTERNAL_SERVER_ERROR,
          body |-> [text |-> "Failed to create user", detail |-> result.err]]

\* Variant: get_user maps RowNotFound to 404.
GetUserResponseNotFound(result) ==
    IF result.ok
    THEN [status |-> OK, body |-> result.row]
    ELSE [status |-> IF result.err = "RowNotFound" THEN NOT_FOUND
                     ELSE INTERNAL_SERVER_ERROR,
          body |-> [text |-> "Failed to get user", detail |-> result.err]]

\* get_user: map_err to 500 with a detail text, else 200 with the row.
GetUserResponse(result) ==
    IF result.ok
    THEN [status |-> OK, body |-> result.row]
    ELSE [status |-> INTERNAL_SERVER_ERROR,
          body |-> [text |-> "Failed to get user", detail |-> result.err]]

Stmt(x) ==
    IF x.handler = "health" THEN HealthStmt
    ELSE IF x.handler = "create_user"
    THEN CreateUserStmt(JsonExtract(x.req.body).payload)
    ELSE GetUserStmt(x.req.id)

Response(h, result) ==
    IF h = "health" THEN HealthResponse(result)
    ELSE IF h = "create_user" THEN CreateUserResponse(result)
    ELSE GetUserResponse(result)

-----------------------------------------------------------------------------
(* Inputs *)

Ids == {1, 2}
Faults == {"ok", "constraint", "io"}

NoBody == [name |-> None, email |-> None, age |-> None]
NoReq == [via |-> "none", method |-> "-", path |-> "-", id |-> NoId, body |-> NoBody]
NoResult == [ok |-> FALSE, err |-> "none"]
NoResp == [status |-> 0, body |-> [text |-> ""]]
NoLast == [req |-> NoReq, handler |-> "none", result |-> NoResult, resp |-> NoResp]

Ann == [name |-> Some("Ann"), email |-> Some("ann@example.com"), age |-> Some(30)]
Empty == [name |-> Some(""), email |-> Some(""), age |-> None]
MissingName == [name |-> None, email |-> Some("ann@example.com"), age |-> Some(30)]
MissingEmail == [name |-> Some("Ann"), email |-> None, age |-> None]

Bodies == {Ann, Empty, MissingName, MissingEmail}
PoolBodies == {Ann, MissingName}

\* The requests a client can send: GET (no body) and POST (a JSON body) of
\* /health, /users and /users/{id}.
HttpRequests(bodies, ids) ==
    { [via |-> "http", method |-> "GET", path |-> p, id |-> NoId, body |-> NoBody] :
        p \in {"/health", "/users"} }
    \cup
    { [via |-> "http", method |-> "GET", path |-> "/users/{id}", id |-> i,
       body |-> NoBody] : i \in ids }
    \cup
    { [via |-> "http", method |-> "POST", path |-> "/users", id |-> NoId,
       body |-> b] : b \in bodies }

GetUserCall(i) ==
    [via |-> "call", method |-> "-", path |-> "get_user", id |-> i, body |-> NoBody]

-----------------------------------------------------------------------------
(* The requests in flight *)

InFlight == BagToSet(inflight)
Waiting == {x \in InFlight : x.conn = NoConn}
Holding == {x \in InFlight : x.conn # NoConn}

Count(S) == BagCardinality([x \in S |-> CopiesIn(x, inflight)])

\* The number of connections borrowed.
Borrowed == Count(Holding)

\* Creates that have been admitted and have not yet executed their insert.
PendingCreates == Count({x \in InFlight : x.handler = "create_user"})

Enter(x) == inflight (+) SetToBag({x})
Leave(x) == inflight (-) SetToBag({x})

-----------------------------------------------------------------------------
(* Actions *)

\* A request arrives over HTTP and is dispatched by the router.  A routed
\* request whose extractors succeed starts its handler, which begins by
\* waiting for a connection; every other request is answered at once.
HttpRequest(n, r) ==
    /\ BagCardinality(inflight) < n
    /\ LET d == Dispatch(r.method, r.path) IN
       IF ~d.routed
       THEN /\ last' = [req |-> r, handler |-> "none", result |-> NoResult,
                        resp |-> [status |-> d.status, body |-> [text |-> ""]]]
            /\ inflight' = inflight
       ELSE IF d.handler = "create_user" /\ ~JsonExtract(r.body).ok
       THEN /\ last' = [req |-> r, handler |-> "none", result |-> NoResult,
                        resp |-> [status |-> UNPROCESSABLE_ENTITY,
                                  body |-> [text |-> "missing field"]]]
            /\ inflight' = inflight
       ELSE /\ d.handler = "create_user" => nextId + PendingCreates <= MaxId
            /\ inflight' = Enter([req |-> r, handler |-> d.handler, conn |-> NoConn])
            /\ last' = last
    /\ UNCHANGED <<returned, poolIdle, poolSize, users, nextId>>

\* get_user is called with the pool and an id (it is a public handler of the
\* crate; create_routes does not route to it).
CallGetUser(n, i) ==
    /\ BagCardinality(inflight) < n
    /\ inflight' = Enter([req |-> GetUserCall(i), handler |-> "get_user",
                          conn |-> NoConn])
    /\ UNCHANGED <<last, returned, poolIdle, poolSize, users, nextId>>

\* fetch_one obtains a connection from the pool.
Acquire(x) ==
    /\ x \in Waiting
    /\ CanAcquire(poolIdle, poolSize)
    /\ LET a == PoolAcquire(poolIdle, poolSize) IN
         /\ inflight' = Leave(x) (+) SetToBag({[x EXCEPT !.conn = a.conn]})
         /\ poolIdle' = a.idle
         /\ poolSize' = a.size
    /\ UNCHANGED <<last, returned, users, nextId>>

\* The acquisition timeout elapses before a connection was obtained:
\* fetch_one returns Error::PoolTimedOut and the handler maps it.
Timeout(x) ==
    /\ x \in Waiting
    /\ inflight' = Leave(x)
    /\ last' = [req |-> x.req, handler |-> x.handler, result |-> PoolTimedOut,
                resp |-> Response(x.handler, PoolTimedOut)]
    /\ UNCHANGED <<returned, poolIdle, poolSize, users, nextId>>

\* The backend answers: fetch_one returns its result, the connection goes
\* back to the pool, and the handler maps the result to its response.
Complete(x, fault) ==
    /\ x \in Holding
    /\ fault = "constraint" => x.handler = "create_user"
    /\ LET out == DbExec(Stmt(x), fault, users, nextId)
           result == FetchOne(out)
           resp == Response(x.handler, result) IN
         /\ users' = out.users
         /\ nextId' = out.nextId
         /\ last' = [req |-> x.req, handler |-> x.handler, result |-> result,
                     resp |-> resp]
         /\ returned' = IF x.handler = "create_user" /\ resp.status = CREATED
                        THEN returned \cup {resp.body} ELSE returned
    /\ poolIdle' = PoolRelease(poolIdle, x.conn)
    /\ inflight' = Leave(x)
    /\ UNCHANGED poolSize

-----------------------------------------------------------------------------
(* Specifications *)

\* The state once main has created the pool (connect opens one connection
\* and returns it to the pool) and started serving.
Init ==
    /\ inflight = EmptyBag
    /\ last = NoLast
    /\ returned = {}
    /\ poolIdle = <<1>>
    /\ poolSize = 1
    /\ users = <<>>
    /\ nextId = 1

\* The data specification: NumTasks requests in flight, every input, a
\* backend and a pool that answer every acquisition in time.
Next ==
    \/ \E r \in HttpRequests(Bodies, {1}) : HttpRequest(NumTasks, r)
    \/ \E i \in Ids : CallGetUser(NumTasks, i)
    \/ \E x \in InFlight : Acquire(x)
    \/ \E x \in InFlight, f \in Faults : Complete(x, f)

Spec == Init /\ [][Next]_vars

\* The pool specification: the service as main runs it (requests arrive
\* over HTTP only), one more request in flight than the pool has
\* connections, acquisitions that may time out.
NextPool ==
    \/ \E r \in HttpRequests(PoolBodies, {1}) : HttpRequest(PoolTasks, r)
    \/ \E x \in InFlight : Acquire(x)
    \/ \E x \in InFlight : Timeout(x)
    \/ \E x \in InFlight, f \in {"ok", "io"} : Complete(x, f)

SpecPool == Init /\ [][NextPool]_vars

-----------------------------------------------------------------------------
(* Properties *)

\* The connections the pool can still hand out.
Conserved == Len(poolIdle) + Borrowed = poolSize

\* A request in flight was answered in this step.
Answered == BagCardinality(inflight') < BagCardinality(inflight)

\* A get_user call was answered in this step.
GetAnswered == Answered /\ last'.handler = "get_user"

IsUserRow(body) == DOMAIN body = DOMAIN User(0, "", "", None, 0, 0)

\* C1: at most 5 connections are borrowed at once, and while 5 are borrowed
\* a request waiting for a connection leaves the wait only by the
\* acquisition timeout (it cannot acquire before a holder releases).
C1_PoolBounded ==
    /\ [](Borrowed <= 5)
    /\ [][(Borrowed = 5 /\ Count(Waiting)' < Count(Waiting))
            => (Borrowed' = 5 /\ last'.result = PoolTimedOut)]_vars

C1_Witness == Borrowed = 5 /\ Waiting # {}

\* C2: every connection the pool has opened is either idle in the pool or
\* borrowed by a request still in flight: a request that has returned,
\* with success or with failure, has given its connection back.
C2_ConnectionReturned ==
    /\ Conserved
    /\ \A i, j \in 1..Len(poolIdle) : i # j => poolIdle[i] # poolIdle[j]
    /\ poolSize <= MaxConnections

C2_Witness ==
    /\ last.handler = "create_user"
    /\ last.resp.status = INTERNAL_SERVER_ERROR
    /\ last.result.err = "database"
    /\ Borrowed = 0
    /\ Len(poolIdle) = poolSize

\* C3: a successful create returns a User with the input's name, email and
\* age, and no two Users returned, and no two rows, share an identifier;
\* identifiers handed out are never handed out again.
C3_CreateReturnsFreshUser ==
    /\ \A i, j \in 1..Len(users) : i # j => users[i].id # users[j].id
    /\ \A u, v \in returned : u.id = v.id => u = v
    /\ \A u \in returned : u.id < nextId
    /\ (last.handler = "create_user" /\ last.resp.status = CREATED) =>
          /\ last.resp.body.name = last.req.body.name[1]
          /\ last.resp.body.email = last.req.body.email[1]
          /\ last.resp.body.age = last.req.body.age
          /\ last.resp.body \in returned

C3_Witness ==
    /\ Cardinality(returned) = 2
    /\ last.handler = "create_user"
    /\ last.resp.status = CREATED
    /\ last.req.body = Ann

\* C4: a get_user for the id of a User that create has returned, answered
\* without a backend fault, answers 200 with exactly that User.
C4_GetReturnsCreated ==
    [][GetAnswered =>
        \A u \in returned :
            (u.id = last'.req.id /\ last'.result.err \notin {"io", "PoolTimedOut"})
            => (last'.resp.status = OK /\ last'.resp.body = u)]_vars

C4_Witness ==
    /\ last.handler = "get_user"
    /\ last.resp.status = OK
    /\ Len(users) = 2
    /\ last.resp.body = users[2]

\* C5 as stated: a create whose name or email is the empty string is
\* rejected before it touches storage, and no row is inserted for it.
C5_EmptyRejected ==
    /\ \A x \in InFlight : x.handler = "create_user" =>
          (x.req.body.name # Some("") /\ x.req.body.email # Some(""))
    /\ \A i \in 1..Len(users) : users[i].name # "" /\ users[i].email # ""

\* C5 amended: a create whose name or email is absent is rejected (422)
\* before it touches storage, and no row is inserted for it.
C5_AbsentRejected ==
    /\ \A x \in InFlight : x.handler = "create_user" =>
          (x.req.body.name # None /\ x.req.body.email # None)
    /\ (/\ last.req.method = "POST" /\ last.req.path = "/users"
        /\ (last.req.body.name = None \/ last.req.body.email = None))
       => (last.handler = "none" /\ last.resp.status = UNPROCESSABLE_ENTITY)

C5_Witness ==
    /\ last.req.body = MissingName
    /\ last.resp.status = UNPROCESSABLE_ENTITY
    /\ \E i \in 1..Len(users) : users[i].name = ""

\* C6: a get_user for an id that no create has returned is answered 500
\* with a detail, as a backend fault is, never with a success, and the pool
\* is left able to serve.
C6_GetUnknownIs500 ==
    [][(GetAnswered /\ \A u \in returned' : u.id # last'.req.id) =>
        /\ last'.resp.status = INTERNAL_SERVER_ERROR
        /\ last'.resp.status = GetUserResponse([ok |-> FALSE, err |-> "io"]).status
        /\ ~IsUserRow(last'.resp.body)
        /\ last'.resp.body.detail # ""
        /\ Conserved']_vars

C6_Witness ==
    /\ last.handler = "get_user"
    /\ last.result.err = "RowNotFound"
    /\ last.resp.status = INTERNAL_SERVER_ERROR
    /\ inflight # EmptyBag

\* C7 as stated: every request whose acquisition timed out is answered
\* with a 5xx status.
C7_TimeoutIs5xx ==
    last.result = PoolTimedOut => last.resp.status \in 500..599

\* C7 amended: a create_user or get_user whose acquisition timed out is
\* answered 500, a health check 200 with database "disconnected"; the
\* timed out request held no connection and the step changes neither the
\* pool nor the table.
C7_TimeoutRecoverable ==
    /\ [](/\ Conserved
          /\ Response("get_user", PoolTimedOut).status = INTERNAL_SERVER_ERROR
          /\ last.result = PoolTimedOut =>
                IF last.handler = "health"
                THEN /\ last.resp.status = OK
                     /\ last.resp.body.database = "disconnected"
                ELSE last.resp.status = INTERNAL_SERVER_ERROR)
    /\ [][(Answered /\ last'.result = PoolTimedOut) =>
            /\ Borrowed' = Borrowed
            /\ UNCHANGED <<poolIdle, poolSize, users, nextId, returned>>]_vars

C7_Witness ==
    /\ last.result = PoolTimedOut
    /\ last.handler = "create_user"
    /\ last.resp.status = INTERNAL_SERVER_ERROR
    /\ Borrowed = 5

\* C8: every GET /users/{id} is dispatched to get_user and answered 200 or
\* 500.
C8_GetUserRouted ==
    (last.req.via = "http" /\ last.req.method = "GET"
        /\ last.req.path = "/users/{id}")
    => (last.handler = "get_user"
        /\ last.resp.status \in {OK, INTERNAL_SERVER_ERROR})

\* C9: no connection is borrowed by two requests in flight, and no borrowed
\* connection is at the same time idle in the pool.
C9_ExclusiveBorrow ==
    \A x \in Holding :
        /\ CopiesIn(x, inflight) = 1
        /\ \A y \in Holding : y # x => y.conn # x.conn
        /\ \A i \in 1..Len(poolIdle) : poolIdle[i] # x.conn
        /\ x.conn \in 1..poolSize

C9_Witness ==
    \E x, y \in Holding :
        /\ x.handler = "health"
        /\ y.handler = "create_user"
        /\ x.conn # y.conn

\* C10: the users table changes only by a create answered 201, which
\* appends the one row it returns; every row already there stays as it is.
C10_TableFrame ==
    [][users' # users =>
        /\ last'.handler = "create_user"
        /\ last'.resp.status = CREATED
        /\ users' = Append(users, last'.resp.body)]_vars

C10_Witness ==
    /\ Len(users) = 1
    /\ last.handler = "create_user"
    /\ last.resp.status = INTERNAL_SERVER_ERROR

====
